---- MODULE Spec2Model ----
(***************************************************************************)
(* Model of src/servo/util/tree.rs: the intrusive doubly-linked n-ary tree *)
(* (Tree<T> records reached through with_tree_fields) and its two mutating *)
(* operations add_child and remove_child, plus the each_child traversal.   *)
(*                                                                         *)
(* Node handles are the integers 1..NumNodes, Option::None is 0.  The      *)
(* store tf holds the Tree record of every handle field by field:          *)
(* tf.parent[n] is the parent field of the record with_tree_fields reaches *)
(* for n.  tree_eq is pointer equality (test::tree_eq).                    *)
(*                                                                         *)
(* fail!/fail_unless! abort the operation at the point they are reached:   *)
(* the operators below return the store as it is at that point (writes     *)
(* made before the failure are kept) together with the kind of failure.    *)
(* A failure ends the task that owns the nodes, so no call follows it.     *)
(***************************************************************************)
EXTENDS Integers, Sequences, FiniteSets, TLC

\* Number of node handles the host has constructed.
NumNodes == 4

None == 0

Node == 1..NumNodes

OptNode == Node \cup {None}

\* struct Tree<T>, one field table per field
Tree == [parent : [Node -> OptNode], first_child : [Node -> OptNode],
         last_child : [Node -> OptNode], prev_sibling : [Node -> OptNode],
         next_sibling : [Node -> OptNode]]

\* fn empty(), for every node
empty == [parent |-> [n \in Node |-> None],
          first_child |-> [n \in Node |-> None],
          last_child |-> [n \in Node |-> None],
          prev_sibling |-> [n \in Node |-> None],
          next_sibling |-> [n \in Node |-> None]]

VARIABLES
    tf,      \* the Tree record of every node (what with_tree_fields reaches)
    pre,     \* history: tf as it was when the last operation was called
    op,      \* history: the last operation and its arguments
    result,  \* history: "ok" or the failure the last operation ended with
    walk     \* history: the last each_child: when its visitor stops, and
             \* the nodes the visitor was called on, in order

vars == <<tf, pre, op, result, walk>>

\* Mutant of tree_eq: no two handles ever compare equal.
tree_eq_never(a, b) == FALSE

\* test::tree_eq: ptr_eq
tree_eq(a, b) == a = b

-----------------------------------------------------------------------------
(* Traversal *)

\* An each_child loop that has made more than NumNodes visits is on a cyclic
\* next_sibling chain and never returns; the walks below stop there, so a
\* result longer than NumNodes stands for a traversal that does not terminate.
WalkFuel == NumNodes + 1

\* Mutant of each_child_loop: the visitor's return value is ignored.
RECURSIVE each_child_loop_NoStop(_, _, _, _)
each_child_loop_NoStop(t, p, stopAt, visited) ==
    IF p = None THEN visited
    ELSE LET v == Append(visited, p) IN
         IF Len(v) >= WalkFuel THEN v
         ELSE each_child_loop_NoStop(t, t.next_sibling[p], stopAt, v)

RECURSIVE each_child_loop(_, _, _, _)
each_child_loop(t, p, stopAt, visited) ==
    IF p = None THEN visited
    ELSE LET v == Append(visited, p) IN
         IF Len(v) = stopAt \/ Len(v) >= WalkFuel THEN v
         ELSE each_child_loop(t, t.next_sibling[p], stopAt, v)

\* each_child with a visitor that returns false at its stopAt-th call
\* (stopAt = 0: the visitor never stops); the result is the nodes visited.
each_child(t, node, stopAt) ==
    each_child_loop(t, t.first_child[node], stopAt, <<>>)

\* The children of node, first to last.
Children(t, node) == each_child(t, node, 0)

RECURSIVE backward_loop(_, _, _)
backward_loop(t, p, visited) ==
    IF p = None THEN visited
    ELSE LET v == Append(visited, p) IN
         IF Len(v) >= WalkFuel THEN v
         ELSE backward_loop(t, t.prev_sibling[p], v)

\* The walk last_child, prev_sibling, prev_sibling, ...
ChildrenBackward(t, node) == backward_loop(t, t.last_child[node], <<>>)

is_leaf(t, node) == t.first_child[node] = None

-----------------------------------------------------------------------------
(* add_child *)

\* Mutant of LinkAfterLast: the new child's prev_sibling is not set.
LinkAfterLast_NoPrev(t, parent, child, lc) ==
    IF t.next_sibling[lc] # None
    THEN [tf |-> t, result |-> "lc_next_sibling"]
    ELSE [tf |-> [t EXCEPT !.next_sibling[lc] = child], result |-> "ok"]

\* Mutant of LinkAfterLast: the old last child is not linked to the new one.
LinkAfterLast_NoNext(t, parent, child, lc) ==
    IF t.next_sibling[lc] # None
    THEN [tf |-> t, result |-> "lc_next_sibling"]
    ELSE [tf |-> [t EXCEPT !.prev_sibling[child] = lc], result |-> "ok"]

\* add_child, the arm Some(lc) of the match on parent_tf.last_child
LinkAfterLast(t, parent, child, lc) ==
    IF t.next_sibling[lc] # None
    THEN [tf |-> t, result |-> "lc_next_sibling"]
    ELSE LET t1 == [t EXCEPT !.next_sibling[lc] = child]
             t2 == [t1 EXCEPT !.prev_sibling[child] = lc]
         IN [tf |-> t2, result |-> "ok"]

\* Mutant of AddToParent: parent_tf.last_child is not updated.
AddToParent_NoLast(t, parent, child) ==
    LET lc == t.last_child[parent] IN
    IF lc = None
    THEN [tf |-> [t EXCEPT !.first_child[parent] = child], result |-> "ok"]
    ELSE LinkAfterLast(t, parent, child, lc)

\* Mutant of AddToParent: parent_tf.first_child is set at every call.
AddToParent_AlwaysFirst(t, parent, child) ==
    LET lc == t.last_child[parent]
        t0 == [t EXCEPT !.first_child[parent] = child]
        linked == IF lc = None
                  THEN [tf |-> t0, result |-> "ok"]
                  ELSE LinkAfterLast(t0, parent, child, lc)
    IN IF linked.result # "ok" THEN linked
       ELSE [tf |-> [linked.tf EXCEPT !.last_child[parent] = child],
             result |-> "ok"]

\* add_child, the access to the parent's record
AddToParent(t, parent, child) ==
    LET lc == t.last_child[parent]
        linked == IF lc = None
                  THEN [tf |-> [t EXCEPT !.first_child[parent] = child],
                        result |-> "ok"]
                  ELSE LinkAfterLast(t, parent, child, lc)
    IN IF linked.result # "ok" THEN linked
       ELSE [tf |-> [linked.tf EXCEPT !.last_child[parent] = child],
             result |-> "ok"]

\* Mutant of AddToChild: a child that has a parent is attached all the same.
AddToChild_NoParentCheck(t, parent, child) ==
    LET t1 == [t EXCEPT !.parent[child] = parent] IN
    IF t1.prev_sibling[child] # None
    THEN [tf |-> t1, result |-> "child_prev_sibling"]
    ELSE IF t1.next_sibling[child] # None
    THEN [tf |-> t1, result |-> "child_next_sibling"]
    ELSE AddToParent(t1, parent, child)

\* add_child, the access to the child's record
AddToChild(t, parent, child) ==
    IF t.parent[child] # None
    THEN [tf |-> t, result |-> "already_has_parent"]
    ELSE LET t1 == [t EXCEPT !.parent[child] = parent] IN
         IF t1.prev_sibling[child] # None
         THEN [tf |-> t1, result |-> "child_prev_sibling"]
         ELSE IF t1.next_sibling[child] # None
         THEN [tf |-> t1, result |-> "child_next_sibling"]
         ELSE AddToParent(t1, parent, child)

add_child(t, parent, child) ==
    IF tree_eq(parent, child)
    THEN [tf |-> t, result |-> "self_parent"]
    ELSE AddToChild(t, parent, child)

-----------------------------------------------------------------------------
(* remove_child *)

\* Mutant of AdjustParent: parent_tf.first_child is not advanced.
AdjustParent_KeepFirst(t, parent, child) ==
    LET fc == t.first_child[parent]
        lc == t.last_child[parent]
    IN IF fc = None THEN [tf |-> t, result |-> "no_first_child"]
       ELSE IF lc = None THEN [tf |-> t, result |-> "no_last_child"]
       ELSE [tf |-> IF tree_eq(child, lc)
                    THEN [t EXCEPT !.last_child[parent] = t.prev_sibling[child]]
                    ELSE t,
             result |-> "ok"]

\* Mutant of AdjustParent: parent_tf.last_child is not retreated.
AdjustParent_KeepLast(t, parent, child) ==
    LET fc == t.first_child[parent]
        lc == t.last_child[parent]
    IN IF fc = None THEN [tf |-> t, result |-> "no_first_child"]
       ELSE IF lc = None THEN [tf |-> t, result |-> "no_last_child"]
       ELSE [tf |-> IF tree_eq(child, fc)
                    THEN [t EXCEPT !.first_child[parent] = t.next_sibling[child]]
                    ELSE t,
             result |-> "ok"]

\* remove_child, "adjust parent fields"
AdjustParent(t, parent, child) ==
    LET fc == t.first_child[parent] IN
    IF fc = None THEN [tf |-> t, result |-> "no_first_child"]
    ELSE LET t1 == IF tree_eq(child, fc)
                   THEN [t EXCEPT !.first_child[parent] = t.next_sibling[child]]
                   ELSE t
             lc == t1.last_child[parent]
         IN IF lc = None THEN [tf |-> t1, result |-> "no_last_child"]
            ELSE [tf |-> IF tree_eq(child, lc)
                         THEN [t1 EXCEPT !.last_child[parent] =
                                             t1.prev_sibling[child]]
                         ELSE t1,
                  result |-> "ok"]

\* Mutant of AdjustSiblings: the previous sibling is not relinked.
AdjustSiblings_NoPrevRelink(t, child) ==
    LET next == t.next_sibling[child] IN
    IF next = None THEN t
    ELSE [t EXCEPT !.prev_sibling[next] = t.prev_sibling[child]]

\* remove_child, "adjust siblings"
AdjustSiblings(t, child) ==
    LET prev == t.prev_sibling[child]
        t1 == IF prev = None THEN t
              ELSE [t EXCEPT !.next_sibling[prev] = t.next_sibling[child]]
        next == t1.next_sibling[child]
    IN IF next = None THEN t1
       ELSE [t1 EXCEPT !.prev_sibling[next] = t1.prev_sibling[child]]

\* Mutant of ClearChild: next_sibling keeps its value.
ClearChild_KeepNext(t, child) ==
    [t EXCEPT !.parent[child] = None, !.prev_sibling[child] = None]

\* Mutant of ClearChild: the child's own child list is reset as well.
ClearChild_DropChildren(t, child) ==
    [t EXCEPT !.parent[child] = None,
              !.next_sibling[child] = None,
              !.prev_sibling[child] = None,
              !.first_child[child] = None,
              !.last_child[child] = None]

\* remove_child, "clear child"
ClearChild(t, child) ==
    [t EXCEPT !.parent[child] = None,
              !.next_sibling[child] = None,
              !.prev_sibling[child] = None]

\* remove_child after the two checks on child_tf.parent
Detach(t, parent, child) ==
    LET adj == AdjustParent(t, parent, child) IN
    IF adj.result # "ok" THEN adj
    ELSE [tf |-> ClearChild(AdjustSiblings(adj.tf, child), child),
          result |-> "ok"]

\* Mutant of remove_child: the stored parent is not compared with the argument.
remove_child_NoParentCheck(t, parent, child) ==
    IF t.parent[child] = None
    THEN [tf |-> t, result |-> "not_a_child"]
    ELSE Detach(t, t.parent[child], child)

remove_child(t, parent, child) ==
    LET parent_n == t.parent[child] IN
    IF parent_n = None
    THEN [tf |-> t, result |-> "not_a_child"]
    ELSE IF ~tree_eq(parent, parent_n)
    THEN [tf |-> t, result |-> "mismatched_parent"]
    ELSE Detach(t, parent, child)

-----------------------------------------------------------------------------
(* The nested with_tree_fields accesses of one call *)

\* add_child: the handles whose records are held at the innermost point the
\* call reaches, outermost first (child_tf, parent_tf, lc_tf).
add_child_accesses(t, parent, child) ==
    IF tree_eq(parent, child) THEN <<>>
    ELSE IF \/ t.parent[child] # None
            \/ t.prev_sibling[child] # None
            \/ t.next_sibling[child] # None
    THEN <<child>>
    ELSE LET lc == [t EXCEPT !.parent[child] = parent].last_child[parent] IN
         IF lc = None THEN <<child, parent>> ELSE <<child, parent, lc>>

\* remove_child: the sets of handles held together during the call, each
\* outermost first: child_tf with parent_tf, then with prev_tf, then with
\* next_tf.
remove_child_accesses(t, parent, child) ==
    LET parent_n == t.parent[child] IN
    IF parent_n = None \/ ~tree_eq(parent, parent_n) THEN {<<child>>}
    ELSE LET adj == AdjustParent(t, parent, child)
             prev == adj.tf.prev_sibling[child]
             next == adj.tf.next_sibling[child]
         IN IF adj.result # "ok" THEN {<<child, parent>>}
            ELSE {<<child, parent>>}
                 \cup (IF prev = None THEN {} ELSE {<<child, prev>>})
                 \cup (IF next = None THEN {} ELSE {<<child, next>>})

-----------------------------------------------------------------------------
(* The state machine: any caller, any sequence of calls up to the first    *)
(* failing one                                                             *)

Init ==
    /\ tf = empty
    /\ pre = tf
    /\ op = [name |-> "none", parent |-> None, child |-> None]
    /\ result = "ok"
    /\ walk = [stopAt |-> 0, visited |-> <<>>]

AddChild ==
    /\ result = "ok"
    /\ \E parent \in Node, child \in Node :
          \E r \in {add_child(tf, parent, child)} :
              /\ tf' = r.tf
              /\ pre' = tf
              /\ op' = [name |-> "add_child", parent |-> parent,
                        child |-> child]
              /\ result' = r.result
              /\ UNCHANGED walk

RemoveChild ==
    /\ result = "ok"
    /\ \E parent \in Node, child \in Node :
          \E r \in {remove_child(tf, parent, child)} :
              /\ tf' = r.tf
              /\ pre' = tf
              /\ op' = [name |-> "remove_child", parent |-> parent,
                        child |-> child]
              /\ result' = r.result
              /\ UNCHANGED walk

Next == AddChild \/ RemoveChild

Spec == Init /\ [][Next]_vars

\* The visitors of each_child: one that never returns false (0) and those
\* that return false at their k-th call.
StopAts == 0..(NumNodes - 1)

\* A call of each_child(node, f).  It writes no record, so the calls after
\* it would meet the stores already met: a run is followed up to its first
\* traversal.  The call returns, or ("diverged") loops on a cyclic chain.
EachChild ==
    /\ result = "ok"
    /\ \E node \in Node, stopAt \in StopAts :
          \E v \in {each_child(tf, node, stopAt)} :
              /\ walk' = [stopAt |-> stopAt, visited |-> v]
              /\ op' = [name |-> "each_child", parent |-> node,
                        child |-> None]
              /\ result' = IF Len(v) >= WalkFuel THEN "diverged"
                           ELSE "returned"
              /\ pre' = tf
              /\ UNCHANGED tf

NextEach == AddChild \/ RemoveChild \/ EachChild

\* The mutating calls followed by a traversal.
SpecEach == Init /\ [][NextEach]_vars

TypeOK ==
    /\ tf \in Tree
    /\ pre \in Tree
    /\ op \in [name : {"none", "add_child", "remove_child", "each_child"},
               parent : OptNode, child : OptNode]
    /\ result \in {"ok", "self_parent", "already_has_parent",
                   "child_prev_sibling", "child_next_sibling",
                   "lc_next_sibling", "not_a_child", "mismatched_parent",
                   "no_first_child", "no_last_child", "returned", "diverged"}
    /\ walk \in [stopAt : StopAts, visited : Seq(Node)]

-----------------------------------------------------------------------------
(* Helpers of the properties *)

Reverse(s) == [i \in 1..Len(s) |-> s[Len(s) + 1 - i]]

Count(s, x) == Cardinality({i \in 1..Len(s) : s[i] = x})

Without(s, x) == SelectSeq(s, LAMBDA e : e # x)

Range(s) == {s[i] : i \in 1..Len(s)}

RECURSIVE ReachesUp(_, _, _, _)
ReachesUp(t, from, target, fuel) ==
    IF from = None \/ fuel = 0 THEN FALSE
    ELSE IF from = target THEN TRUE
    ELSE ReachesUp(t, t.parent[from], target, fuel - 1)

\* n is reached by following the parent field from n.
OwnAncestor(t, n) == ReachesUp(t, t.parent[n], n, NumNodes)

AddOk == op.name = "add_child" /\ result = "ok"

RemoveOk == op.name = "remove_child" /\ result = "ok"

-----------------------------------------------------------------------------
(* Properties *)

\* C1: for every node p the forward walk (first_child, next_sibling, ...)
\* terminates and ends at last_child, the backward walk (last_child,
\* prev_sibling, ...) terminates and ends at first_child, and the backward
\* sequence is the reverse of the forward sequence.
C1_SiblingSymmetry ==
    \A p \in Node :
        LET f == Children(tf, p)
            b == ChildrenBackward(tf, p)
        IN /\ Len(f) <= NumNodes
           /\ Len(b) <= NumNodes
           /\ b = Reverse(f)
           /\ IF f = <<>>
              THEN tf.first_child[p] = None /\ tf.last_child[p] = None
              ELSE f[Len(f)] = tf.last_child[p] /\ b[Len(b)] = tf.first_child[p]

\* C1 witness: a middle child has just been removed from a list of three,
\* leaving two children linked in both directions.
C1_Witness ==
    /\ RemoveOk
    /\ pre.prev_sibling[op.child] # None
    /\ pre.next_sibling[op.child] # None
    /\ Len(Children(tf, op.parent)) = 2
    /\ Len(ChildrenBackward(tf, op.parent)) = 2

\* C2 (as claimed): no node is its own ancestor: following the parent field
\* from a node never returns to that node.
C2_NoCycles == \A n \in Node : ~OwnAncestor(tf, n)

\* C3: a node whose parent field is p appears exactly once in p's child
\* list, and a node whose parent field is none appears in no child list.
C3_ChildListedOnce ==
    \A q \in Node :
        LET kids == Children(tf, q) IN
        \A c \in Node :
            /\ tf.parent[c] = q => Count(kids, c) = 1
            /\ tf.parent[c] = None => Count(kids, c) = 0

\* C3 witness: one node is a middle child of its parent while another node,
\* just removed, has no parent.
C3_Witness ==
    /\ RemoveOk
    /\ tf.parent[op.child] = None
    /\ \E c \in Node : /\ tf.parent[c] # None
                       /\ tf.prev_sibling[c] # None
                       /\ tf.next_sibling[c] # None

\* C4: every node in p's child list has its parent field equal to p, and no
\* node is in the child lists of two different parents.
C4_OneParent ==
    \A p \in Node :
        LET kids == Range(Children(tf, p)) IN
        /\ \A c \in kids : tf.parent[c] = p
        /\ \A q \in Node \ {p} :
              \* a node without first_child has an empty child list
              tf.first_child[q] # None =>
                  kids \cap Range(Children(tf, q)) = {}

\* C4 witness: add_child was called on a node that is another parent's child
\* while two parents have children.
C4_Witness ==
    /\ op.name = "add_child"
    /\ pre.parent[op.child] \notin {None, op.parent}
    /\ op.parent # op.child
    /\ Children(tf, op.parent) # <<>>
    /\ Children(tf, tf.parent[op.child]) # <<>>

\* C5: after a successful add_child(p, c) the children of p are the children
\* before the call followed by c.
C5_AppendAtTail ==
    AddOk => Children(tf, op.parent) = Append(Children(pre, op.parent), op.child)

\* C5 witness: a third child has been added, so each_child yields c1, c2, c3.
C5_Witness ==
    /\ AddOk
    /\ Len(Children(pre, op.parent)) = 2
    /\ Len(Children(tf, op.parent)) = 3
    /\ Children(tf, op.parent)[3] = op.child

\* C6: after a successful remove_child(p, c) the children of p are the
\* children before the call with c, which was there once, deleted, the others
\* in unchanged order; so there is one child less.
C6_RemoveDeletes ==
    RemoveOk =>
        LET before == Children(pre, op.parent)
            after == Children(tf, op.parent)
        IN /\ Count(before, op.child) = 1
           /\ after = Without(before, op.child)
           /\ Len(after) = Len(before) - 1

\* C6 witness: the middle one of three children has been removed.
C6_Witness ==
    /\ RemoveOk
    /\ Len(Children(pre, op.parent)) = 3
    /\ Children(pre, op.parent)[2] = op.child
    /\ Len(Children(tf, op.parent)) = 2

\* The fields remove_child resets are none in the removed child.
Detached(c) ==
    /\ tf.parent[c] = None
    /\ tf.prev_sibling[c] = None
    /\ tf.next_sibling[c] = None

\* C7 (as claimed): after a successful remove_child(p, c) the parent,
\* prev_sibling and next_sibling of c are none and add_child(p2, c) succeeds
\* for every node p2.
C7_ReattachAny ==
    RemoveOk =>
        /\ Detached(op.child)
        /\ \A p2 \in Node : add_child(tf, p2, op.child).result = "ok"

\* C7 (amended): after a successful remove_child(p, c) the parent,
\* prev_sibling and next_sibling of c are none and add_child(p2, c) succeeds
\* for every node p2 other than c itself, the original p included.
C7_ReattachOther ==
    RemoveOk =>
        /\ Detached(op.child)
        /\ \A p2 \in Node \ {op.child} :
              add_child(tf, p2, op.child).result = "ok"

\* C7 witness: a child that had siblings on both sides has been removed from
\* a parent that still has children.
C7_Witness ==
    /\ RemoveOk
    /\ pre.prev_sibling[op.child] # None
    /\ pre.next_sibling[op.child] # None
    /\ tf.parent[op.child] = None
    /\ tf.last_child[op.parent] # None

\* C8: add_child(x, x) fails, as self-parenting, and leaves every field of
\* every record as it was.
C8_SelfParentRejected ==
    (op.name = "add_child" /\ op.parent = op.child) =>
        result = "self_parent" /\ tf = pre

\* C8 witness: add_child(x, x) was called on a parentless node x, which
\* passes every other check of add_child, in a store that has links.
C8_Witness ==
    /\ op.name = "add_child"
    /\ op.parent = op.child
    /\ result = "self_parent"
    /\ pre.parent[op.child] = None
    /\ pre.first_child[op.child] # None

\* C9: remove_child(p2, c) fails when the parent field of c is none (not a
\* child) or a node other than p2 (mismatched parent), and leaves every field
\* of every record as it was.
C9_BadRemovalRejected ==
    op.name = "remove_child" =>
        /\ pre.parent[op.child] = None =>
              result = "not_a_child" /\ tf = pre
        /\ (pre.parent[op.child] # None
              /\ ~tree_eq(op.parent, pre.parent[op.child])) =>
              result = "mismatched_parent" /\ tf = pre

\* C9 witness: remove_child(p2, c) was called with c a child of p # p2.
C9_Witness ==
    /\ op.name = "remove_child"
    /\ pre.parent[op.child] \notin {None, op.parent}
    /\ result = "mismatched_parent"

\* C10 (as claimed): add_child(p, c) fails with "already has a parent"
\* whenever the parent field of c is not none, and modifies no field.
C10_AlreadyHasParent ==
    (op.name = "add_child" /\ pre.parent[op.child] # None) =>
        result = "already_has_parent" /\ tf = pre

\* C10 (amended): whenever the parent field of c is not none, add_child(p, c)
\* fails and modifies no field; the failure is "already has a parent" when p
\* is not c (also when the parent of c is p already) and the self-parenting
\* failure, which is checked first, when p is c.
C10_AttachedChildRejected ==
    (op.name = "add_child" /\ pre.parent[op.child] # None) =>
        /\ tf = pre
        /\ result = IF tree_eq(op.parent, op.child)
                    THEN "self_parent" ELSE "already_has_parent"

\* C10 witness: add_child(p, c) was called with c a child of p already.
C10_Witness ==
    /\ op.name = "add_child"
    /\ pre.parent[op.child] = op.parent
    /\ result = "already_has_parent"

\* The nodes whose parent field is n.
ChildSet(t, n) == {c \in Node : t.parent[c] = n}

\* Every field of n's record is none, as empty() makes it.
IsEmpty(t, n) ==
    /\ t.parent[n] = None
    /\ t.first_child[n] = None
    /\ t.last_child[n] = None
    /\ t.prev_sibling[n] = None
    /\ t.next_sibling[n] = None

\* C11: a node with an empty record is a leaf; right after a successful
\* add_child naming it as parent a node is not a leaf; right after a
\* successful remove_child of its only child it is a leaf again.
C11_LeafProperty ==
    /\ \A n \in Node : IsEmpty(tf, n) => is_leaf(tf, n)
    /\ AddOk => ~is_leaf(tf, op.parent)
    /\ (RemoveOk /\ ChildSet(pre, op.parent) = {op.child}) =>
           is_leaf(tf, op.parent)

\* C11 witness: the only child of a node that was not a leaf has been
\* removed.
C11_Witness ==
    /\ RemoveOk
    /\ ChildSet(pre, op.parent) = {op.child}
    /\ ~is_leaf(pre, op.parent)
    /\ is_leaf(tf, op.parent)

\* C12: for every node n, first_child and last_child are both none or both
\* present; both none exactly when no node has n as its parent; present and
\* equal exactly when exactly one node has n as its parent.
C12_BoundaryPointers ==
    \A n \in Node :
        LET fc == tf.first_child[n]
            lc == tf.last_child[n]
            k == Cardinality(ChildSet(tf, n))
        IN /\ (fc = None) <=> (lc = None)
           /\ (fc = None /\ lc = None) <=> (k = 0)
           /\ (fc # None /\ fc = lc) <=> (k = 1)

\* C12 witness: after a successful call one node has no child, one has
\* exactly one and one has two.
C12_Witness ==
    /\ result = "ok"
    /\ \E a, b, c \in Node :
          /\ Cardinality(ChildSet(tf, a)) = 0 /\ tf.first_child[a] = None
          /\ Cardinality(ChildSet(tf, b)) = 1
          /\ tf.first_child[b] = tf.last_child[b]
          /\ Cardinality(ChildSet(tf, c)) = 2
          /\ tf.first_child[c] # tf.last_child[c]

Fields == {"parent", "first_child", "last_child", "prev_sibling",
           "next_sibling"}

\* The fields, as <<field, node>>, whose value differs between t0 and t1.
Changed(t0, t1) == {fn \in Fields \X Node : t0[fn[1]][fn[2]] # t1[fn[1]][fn[2]]}

\* C14: a successful remove_child(p, c) leaves first_child and last_child of
\* c as they were and changes nothing but parent, prev_sibling, next_sibling
\* of c, first_child, last_child of p, next_sibling of c's previous sibling
\* and prev_sibling of c's next sibling.
C14_RemoveFrame ==
    RemoveOk =>
        LET p == op.parent
            c == op.child
        IN /\ tf.first_child[c] = pre.first_child[c]
           /\ tf.last_child[c] = pre.last_child[c]
           /\ Changed(pre, tf) \subseteq
                 {<<"parent", c>>, <<"prev_sibling", c>>, <<"next_sibling", c>>,
                  <<"first_child", p>>, <<"last_child", p>>,
                  <<"next_sibling", pre.prev_sibling[c]>>,
                  <<"prev_sibling", pre.next_sibling[c]>>}

\* C14 witness: a child that has a child of its own and a previous sibling
\* has been removed.
C14_Witness ==
    /\ RemoveOk
    /\ pre.first_child[op.child] # None
    /\ pre.prev_sibling[op.child] # None
    /\ tf.first_child[op.child] = pre.first_child[op.child]
    /\ tf.next_sibling[pre.prev_sibling[op.child]] = None

\* C15: a successful add_child(p, c) changes nothing but parent and
\* prev_sibling of c, last_child of p, first_child of p when p had no child,
\* and next_sibling of the previous last child of p when p had one; in
\* particular first_child, last_child of c and parent, prev_sibling,
\* next_sibling of p stay as they were.
C15_AddFrame ==
    AddOk =>
        LET p == op.parent
            c == op.child
            lc == pre.last_child[p]
        IN /\ Changed(pre, tf) \subseteq
                 {<<"parent", c>>, <<"prev_sibling", c>>, <<"last_child", p>>}
                 \cup (IF lc = None /\ pre.first_child[p] = None
                       THEN {<<"first_child", p>>}
                       ELSE {<<"next_sibling", lc>>})
           /\ \A f \in {"first_child", "last_child"} : tf[f][c] = pre[f][c]
           /\ \A f \in {"parent", "prev_sibling", "next_sibling"} :
                 tf[f][p] = pre[f][p]

\* C15 witness: a node with a child of its own has been added to a parent
\* that had a child, so three nodes were written.
C15_Witness ==
    /\ AddOk
    /\ pre.last_child[op.parent] # None
    /\ pre.first_child[op.child] # None
    /\ Cardinality({fn[2] : fn \in Changed(pre, tf)}) = 3

\* The failures a caller can provoke; the other failures of add_child and
\* remove_child are assertions on the consistency of the records.
UsageFailures ==
    {"self_parent", "already_has_parent", "not_a_child", "mismatched_parent"}

\* C17: no call ends on a consistency assertion (child.prev_sibling or
\* next_sibling not none, old last child's next_sibling not none, parent
\* without first or last child): a call succeeds or ends in self-parenting,
\* "already has a parent", "not a child" or mismatched parent.
C17_AssertionsUnreachable == result \in {"ok"} \cup UsageFailures

\* C17 witness: add_child succeeded on the path that evaluates all three of
\* its assertions, appending after an old last child.
C17_Witness ==
    /\ AddOk
    /\ pre.last_child[op.parent] # None
    /\ pre.next_sibling[pre.last_child[op.parent]] = None
    /\ tf.prev_sibling[op.child] = pre.last_child[op.parent]

\* No handle occurs twice among the records held together.
NoAlias(held) == \A i, j \in 1..Len(held) : i # j => held[i] # held[j]

\* C18: the records a call holds together are records of different nodes:
\* in add_child the child, the parent and the parent's previous last child
\* are pairwise distinct; in remove_child the child differs from the parent,
\* from its previous sibling and from its next sibling.
C18_NoAliasedAccess ==
    /\ op.name = "add_child" =>
           NoAlias(add_child_accesses(pre, op.parent, op.child))
    /\ op.name = "remove_child" =>
           \A held \in remove_child_accesses(pre, op.parent, op.child) :
               NoAlias(held)

\* C18 witness: remove_child succeeded on a child with a sibling on each
\* side, nesting the access to the child with three other accesses.
C18_Witness ==
    /\ RemoveOk
    /\ Cardinality(remove_child_accesses(pre, op.parent, op.child)) = 3
    /\ \A held \in remove_child_accesses(pre, op.parent, op.child) :
           Len(held) = 2 /\ held[1] = op.child /\ held[2] # op.child

\* C19: where add_child(p, c) has succeeded, remove_child(p, c) called next
\* succeeds and gives every field of every record the value it had before
\* the add_child.
C19_AddRemoveRoundTrip ==
    AddOk =>
        LET back == remove_child(tf, op.parent, op.child)
        IN back.result = "ok" /\ back.tf = pre

\* C19 witness: add_child appended a node that has a child of its own after
\* an old last child, writing three records that remove_child writes back.
C19_Witness ==
    /\ AddOk
    /\ pre.last_child[op.parent] # None
    /\ pre.first_child[op.child] # None
    /\ Cardinality(Changed(pre, tf)) = 4
    /\ Changed(remove_child(tf, op.parent, op.child).tf, pre) = {}

Min(a, b) == IF a < b THEN a ELSE b

\* v follows the sibling order of node: it starts at first_child and each
\* next element is the next_sibling of the one before.
InSiblingOrder(t, node, v) ==
    /\ v # <<>> => v[1] = t.first_child[node]
    /\ \A i \in 1..(Len(v) - 1) : v[i + 1] = t.next_sibling[v[i]]

\* C13: each_child calls the visitor on the children of the node in sibling
\* order and stops at once when the visitor returns false: a visitor that
\* stops at its k-th call is called exactly k times, on the first k children
\* (on all of them when there are fewer than k).
C13_EarlyTermination ==
    (op.name = "each_child" /\ walk.stopAt >= 1) =>
        /\ result = "returned"
        /\ Len(walk.visited) =
               Min(walk.stopAt, Cardinality(ChildSet(tf, op.parent)))
        /\ InSiblingOrder(tf, op.parent, walk.visited)

\* C13 witness: over three children, a visitor that stops at its first call
\* was called once, on the first child.
C13_Witness ==
    /\ op.name = "each_child"
    /\ walk.stopAt = 1
    /\ Cardinality(ChildSet(tf, op.parent)) = 3
    /\ walk.visited = <<tf.first_child[op.parent]>>

\* C16: each_child with a visitor that never stops returns after as many
\* visitor calls as the node has children, each on another node.
C16_TraversalTerminates ==
    (op.name = "each_child" /\ walk.stopAt = 0) =>
        /\ result = "returned"
        /\ Len(walk.visited) = Cardinality(ChildSet(tf, op.parent))
        /\ NoAlias(walk.visited)

\* C16 witness: a full traversal of a node with three children returned
\* after three visits.
C16_Witness ==
    /\ op.name = "each_child"
    /\ walk.stopAt = 0
    /\ result = "returned"
    /\ Cardinality(ChildSet(tf, op.parent)) = 3
    /\ Len(walk.visited) = 3

====
